---- MODULE Spec2Model ----
(***************************************************************************)
(* Model of deko3d Example 06 (simple multisampling), class CExample06.     *)
(*                                                                         *)
(* The CPU side is one thread: pc is its position inside run(),            *)
(* onOperationMode, createFramebufferResources, destroyFramebufferResources,*)
(* onFrame, render and the destructor.  The GPU side is the queue: command  *)
(* lists submitted and not yet executed, consumed in order by GpuExecute.   *)
(*                                                                         *)
(* Memory handles are records [what, gen]; gen is the number of the         *)
(* createFramebufferResources call that made the allocation, so that a      *)
(* stale handle or command list can be told from a fresh one.              *)
(***************************************************************************)
EXTENDS Integers, Sequences, FiniteSets, TLC

\* ---------------------------------------------------------------- bounds
\* number of createFramebufferResources calls explored (first call included)
MaxModes == 3
\* time inputs of onFrame are 0..MaxSec whole seconds (ns = sec * 10^9)
MaxSec == 4

\* ------------------------------------------------------ program constants
NumFramebuffers == 2

OperationModes == {"Handheld", "Console"}

\* ------------------------------------------------------------ static data
Vtx(p, c) == [position |-> p, color |-> c]

CubeVertexData_Dup ==
    << \* +X face
       Vtx(<< 1,  1,  1>>, <<1, 0, 0>>), Vtx(<< 1, -1,  1>>, <<0, 1, 0>>),
       Vtx(<< 1, -1, -1>>, <<0, 0, 1>>), Vtx(<< 1,  1, -1>>, <<1, 1, 0>>),
       \* -X face
       Vtx(<<-1,  1, -1>>, <<1, 0, 0>>), Vtx(<<-1, -1, -1>>, <<0, 1, 0>>),
       Vtx(<<-1, -1,  1>>, <<0, 0, 1>>), Vtx(<<-1,  1,  1>>, <<1, 1, 0>>),
       \* +Y face
       Vtx(<<-1,  1, -1>>, <<1, 0, 0>>), Vtx(<<-1,  1,  1>>, <<0, 1, 0>>),
       Vtx(<< 1,  1,  1>>, <<0, 0, 1>>), Vtx(<< 1,  1, -1>>, <<1, 1, 0>>),
       \* -Y face
       Vtx(<<-1, -1,  1>>, <<1, 0, 0>>), Vtx(<<-1, -1, -1>>, <<0, 1, 0>>),
       Vtx(<< 1, -1, -1>>, <<0, 0, 1>>), Vtx(<< 1, -1,  1>>, <<1, 1, 0>>),
       \* +Z face
       Vtx(<<-1,  1,  1>>, <<1, 0, 0>>), Vtx(<<-1, -1,  1>>, <<0, 1, 0>>),
       Vtx(<< 1, -1,  1>>, <<0, 0, 1>>), Vtx(<< 1,  1,  1>>, <<1, 1, 0>>),
       \* -Z face, last corner repeats the first
       Vtx(<< 1,  1, -1>>, <<1, 0, 0>>), Vtx(<< 1, -1, -1>>, <<0, 1, 0>>),
       Vtx(<<-1, -1, -1>>, <<0, 0, 1>>), Vtx(<< 1,  1, -1>>, <<1, 1, 0>>) >>

CubeVertexData ==
    << \* +X face
       Vtx(<< 1,  1,  1>>, <<1, 0, 0>>), Vtx(<< 1, -1,  1>>, <<0, 1, 0>>),
       Vtx(<< 1, -1, -1>>, <<0, 0, 1>>), Vtx(<< 1,  1, -1>>, <<1, 1, 0>>),
       \* -X face
       Vtx(<<-1,  1, -1>>, <<1, 0, 0>>), Vtx(<<-1, -1, -1>>, <<0, 1, 0>>),
       Vtx(<<-1, -1,  1>>, <<0, 0, 1>>), Vtx(<<-1,  1,  1>>, <<1, 1, 0>>),
       \* +Y face
       Vtx(<<-1,  1, -1>>, <<1, 0, 0>>), Vtx(<<-1,  1,  1>>, <<0, 1, 0>>),
       Vtx(<< 1,  1,  1>>, <<0, 0, 1>>), Vtx(<< 1,  1, -1>>, <<1, 1, 0>>),
       \* -Y face
       Vtx(<<-1, -1,  1>>, <<1, 0, 0>>), Vtx(<<-1, -1, -1>>, <<0, 1, 0>>),
       Vtx(<< 1, -1, -1>>, <<0, 0, 1>>), Vtx(<< 1, -1,  1>>, <<1, 1, 0>>),
       \* +Z face
       Vtx(<<-1,  1,  1>>, <<1, 0, 0>>), Vtx(<<-1, -1,  1>>, <<0, 1, 0>>),
       Vtx(<< 1, -1,  1>>, <<0, 0, 1>>), Vtx(<< 1,  1,  1>>, <<1, 1, 0>>),
       \* -Z face
       Vtx(<< 1,  1, -1>>, <<1, 0, 0>>), Vtx(<< 1, -1, -1>>, <<0, 1, 0>>),
       Vtx(<<-1, -1, -1>>, <<0, 0, 1>>), Vtx(<<-1,  1, -1>>, <<1, 1, 0>>) >>

\* ------------------------------------------------------- handles and lists
Handle(what, g) == [what |-> what, idx |-> 0, gen |-> g]
FramebufferHandle(n, g) == [what |-> "framebuffer", idx |-> n, gen |-> g]
NullHandle == Handle("null", 0)

\* a command list handle: what it does, the generation of the images it
\* references, the framebuffer it targets (-1: none) and its draw call
CmdList(kind, g, s, d) == [kind |-> kind, gen |-> g, slot |-> s, draw |-> d]
UninitList == CmdList("uninit", 0, -1, <<>>)

\* an entry of the queue / of the per-frame log of queue operations
QueueOp(o, kind, g, s, data) ==
    [op |-> o, kind |-> kind, gen |-> g, slot |-> s, data |-> data]
Submit(l) == QueueOp("submit", l.kind, l.gen, l.slot, <<>>)

\* ------------------------------------------------ matrices (symbolic, glm)
\* A matrix is the product of its factors, left to right; glm's transform
\* functions multiply on the right.
Factor(o, a) == [op |-> o, arg |-> a]
Mat4Identity == << >>
translate(m, v) == Append(m, Factor("translate", v))
\* angle in eighths of a turn (tau/8)
rotate(m, angle, axis) == Append(m, Factor("rotate", <<angle>> \o axis))
\* scale factor in halves
scale(m, halves) == Append(m, Factor("scale", halves))
perspectiveRH_ZO(fovyDeg, w, h) == << Factor("perspective", <<fovyDeg, w, h>>) >>

\* values a never-written matrix member may hold
IndeterminateMtx == { Mat4Identity, << Factor("garbage", <<0>>) >> }

\* fixed point with 3 fractional bits: x stands for x/8
floorf(x) == 8 * (x \div 8)
fractf(x) == x - floorf(x)

\* sinf at a phase given in eighths of a turn (exact at quarter turns)
sinfTurn(p) == CASE p = 0 -> 0 [] p = 2 -> 1 [] p = 4 -> 0 [] p = 6 -> -1

\* ------------------------------------------------------------------ state
VARIABLES
    pc,                     \* position of the CPU thread
    ret,                    \* where destroyFramebufferResources returns to
    i,                      \* loop index of the framebuffer loops
    modeArg,                \* argument of the running onOperationMode
    ns,                     \* argument of the running onFrame, in seconds
    slot,                   \* local of render()
    onFrameResult,          \* last value returned by onFrame
    allocSeq,               \* number of createFramebufferResources calls
    pool_images,            \* live allocations of the image pool
    pool_data,              \* live allocations of the data pool
    cmdbuf,                 \* command lists held by the static cmdbuf
    queue,                  \* submitted, not yet executed by the GPU
    transformState,         \* [mdlvMtx, projMtx]
    transformUniformBuffer,
    vertexBuffer,
    framebufferWidth,
    framebufferHeight,
    colorBuffer_mem,
    depthBuffer_mem,
    framebuffers_mem,
    framebuffer_cmdlists,
    swapchain,              \* 0: null, else generation of its framebuffers
    render_cmdlist,
    discard_cmdlist,
    frameOps,               \* queue operations of the current/last render()
    destroyOps,             \* steps of the current/last destroy call
    refFrame                \* input and model-view matrix of the first frame

harnessVars == <<pc, ret, i, modeArg, ns, slot, onFrameResult, allocSeq>>
poolVars == <<pool_images, pool_data>>
bufferVars == <<transformUniformBuffer, vertexBuffer>>
sizeVars == <<framebufferWidth, framebufferHeight>>
imageVars == <<colorBuffer_mem, depthBuffer_mem, framebuffers_mem>>
listVars == <<cmdbuf, framebuffer_cmdlists, render_cmdlist, discard_cmdlist>>
logVars == <<frameOps, destroyOps, refFrame>>

vars == <<pc, ret, i, modeArg, ns, slot, onFrameResult, allocSeq,
          pool_images, pool_data, cmdbuf, queue, transformState,
          transformUniformBuffer, vertexBuffer, framebufferWidth,
          framebufferHeight, colorBuffer_mem, depthBuffer_mem,
          framebuffers_mem, framebuffer_cmdlists, swapchain, render_cmdlist,
          discard_cmdlist, frameOps, destroyOps, refFrame>>

Slots == 0 .. (NumFramebuffers - 1)

NoFrame == [ns |-> -1, gen |-> 0, mdlvMtx |-> Mat4Identity]

\* State after the constructor: pools, command memory, shaders, the uniform
\* buffer and the vertex buffer exist; every framebuffer-sized member is still
\* default-constructed (handles null) or never written (sizes, lists, matrices).
Init ==
    /\ pc = "run"
    /\ ret = "run"
    /\ i = 0
    /\ modeArg = "Handheld"
    /\ ns = 0
    /\ slot = -1
    /\ onFrameResult = TRUE
    /\ allocSeq = 0
    /\ pool_images = {}
    /\ pool_data = { Handle("cmdmem", 0), Handle("dynmem", 0),
                     Handle("transformUniformBuffer", 0),
                     Handle("vertexBuffer", 0) }
    /\ cmdbuf = {}
    /\ queue = << >>
    /\ transformState \in [mdlvMtx : IndeterminateMtx, projMtx : {Mat4Identity}]
    /\ transformUniformBuffer = Handle("transformUniformBuffer", 0)
    /\ vertexBuffer = Handle("vertexBuffer", 0)
    /\ framebufferWidth = 0
    /\ framebufferHeight = 0
    /\ colorBuffer_mem = NullHandle
    /\ depthBuffer_mem = NullHandle
    /\ framebuffers_mem = [s \in Slots |-> NullHandle]
    /\ framebuffer_cmdlists = [s \in Slots |-> UninitList]
    /\ swapchain = 0
    /\ render_cmdlist = UninitList
    /\ discard_cmdlist = UninitList
    /\ frameOps = << >>
    /\ destroyOps = << >>
    /\ refFrame = NoFrame

\* ------------------------------------------------- harness (CApplication)
\* run() delivers the current operation mode once before its loop
RunStart ==
    /\ pc = "run"
    /\ \E m \in OperationModes : modeArg' = m
    /\ pc' = "om_destroy"
    /\ UNCHANGED <<ret, i, ns, slot, onFrameResult, allocSeq, queue,
                   transformState, swapchain>>
    /\ UNCHANGED <<poolVars, bufferVars, sizeVars, imageVars, listVars, logVars>>

\* loop: an operation-mode-changed message
MsgOperationMode ==
    /\ pc = "loop"
    /\ allocSeq < MaxModes
    /\ \E m \in OperationModes : modeArg' = m
    /\ pc' = "om_destroy"
    /\ UNCHANGED <<ret, i, ns, slot, onFrameResult, allocSeq, queue,
                   transformState, swapchain>>
    /\ UNCHANGED <<poolVars, bufferVars, sizeVars, imageVars, listVars, logVars>>

\* loop: the applet is asked to close; run() returns and the object dies
MsgClose ==
    /\ pc = "loop"
    /\ pc' = "dt_destroy"
    /\ UNCHANGED <<ret, i, modeArg, ns, slot, onFrameResult, allocSeq, queue,
                   transformState, swapchain>>
    /\ UNCHANGED <<poolVars, bufferVars, sizeVars, imageVars, listVars, logVars>>

\* loop: one frame, with the elapsed time as argument
CallOnFrame ==
    /\ pc = "loop"
    /\ \E t \in 0 .. MaxSec : ns' = t
    /\ pc' = "f_key"
    /\ UNCHANGED <<ret, i, modeArg, slot, onFrameResult, allocSeq, queue,
                   transformState, swapchain>>
    /\ UNCHANGED <<poolVars, bufferVars, sizeVars, imageVars, listVars, logVars>>

\* onFrame returned true: next iteration
RunContinue ==
    /\ pc = "onframe_ret"
    /\ onFrameResult = TRUE
    /\ pc' = "loop"
    /\ UNCHANGED <<ret, i, modeArg, ns, slot, onFrameResult, allocSeq, queue,
                   transformState, swapchain>>
    /\ UNCHANGED <<poolVars, bufferVars, sizeVars, imageVars, listVars, logVars>>

\* onFrame returned false: break, run() returns and the object dies
RunBreak ==
    /\ pc = "onframe_ret"
    /\ onFrameResult = FALSE
    /\ pc' = "dt_destroy"
    /\ UNCHANGED <<ret, i, modeArg, ns, slot, onFrameResult, allocSeq, queue,
                   transformState, swapchain>>
    /\ UNCHANGED <<poolVars, bufferVars, sizeVars, imageVars, listVars, logVars>>

\* chooseFramebufferSize(width, height, mode)
chooseFramebufferSize(mode) ==
    IF mode = "Console" THEN <<1920, 1080>> ELSE <<1280, 720>>

\* The GPU executes the oldest submitted entry
GpuExecute ==
    /\ queue # << >>
    /\ queue' = Tail(queue)
    /\ UNCHANGED <<harnessVars, transformState, swapchain>>
    /\ UNCHANGED <<poolVars, bufferVars, sizeVars, imageVars, listVars, logVars>>

\* ------------------------------------------------------- onOperationMode
OnOperationModeDestroy ==
    /\ pc = "om_destroy"
    /\ pc' = "d_check"
    /\ ret' = "om_choose"
    /\ UNCHANGED <<i, modeArg, ns, slot, onFrameResult, allocSeq, queue,
                   transformState, swapchain>>
    /\ UNCHANGED <<poolVars, bufferVars, sizeVars, imageVars, listVars, logVars>>

OnOperationModeChooseSize ==
    /\ pc = "om_choose"
    /\ framebufferWidth' = chooseFramebufferSize(modeArg)[1]
    /\ framebufferHeight' = chooseFramebufferSize(modeArg)[2]
    /\ pc' = "c_color"
    /\ UNCHANGED <<ret, i, modeArg, ns, slot, onFrameResult, allocSeq, queue,
                   transformState, swapchain>>
    /\ UNCHANGED <<poolVars, bufferVars, imageVars, listVars, logVars>>

\* -------------------------------------------- createFramebufferResources
\* allocate the multisampled color buffer
CreateColorBuffer ==
    /\ pc = "c_color"
    /\ allocSeq' = allocSeq + 1
    /\ colorBuffer_mem' = Handle("colorBuffer", allocSeq + 1)
    /\ pool_images' = pool_images \cup { Handle("colorBuffer", allocSeq + 1) }
    /\ pc' = "c_depth"
    /\ UNCHANGED <<ret, i, modeArg, ns, slot, onFrameResult, queue,
                   transformState, swapchain, pool_data, depthBuffer_mem,
                   framebuffers_mem>>
    /\ UNCHANGED <<bufferVars, sizeVars, listVars, logVars>>

\* allocate the multisampled depth buffer
CreateDepthBuffer ==
    /\ pc = "c_depth"
    /\ depthBuffer_mem' = Handle("depthBuffer", allocSeq)
    /\ pool_images' = pool_images \cup { Handle("depthBuffer", allocSeq) }
    /\ pc' = "c_fb"
    /\ i' = 0
    /\ UNCHANGED <<ret, modeArg, ns, slot, onFrameResult, allocSeq, queue,
                   transformState, swapchain, pool_data, colorBuffer_mem,
                   framebuffers_mem>>
    /\ UNCHANGED <<bufferVars, sizeVars, listVars, logVars>>

\* one iteration of the framebuffer loop: allocate framebuffer i and record
\* the list that resolves the color buffer into it
CreateFramebuffer ==
    /\ pc = "c_fb"
    /\ i < NumFramebuffers
    /\ framebuffers_mem' =
           [framebuffers_mem EXCEPT ![i] = FramebufferHandle(i, allocSeq)]
    /\ pool_images' = pool_images \cup { FramebufferHandle(i, allocSeq) }
    /\ LET l == CmdList("resolve", colorBuffer_mem.gen, i, <<>>)
       IN  /\ cmdbuf' = cmdbuf \cup {l}
           /\ framebuffer_cmdlists' = [framebuffer_cmdlists EXCEPT ![i] = l]
    /\ i' = i + 1
    /\ pc' = IF i + 1 < NumFramebuffers THEN "c_fb" ELSE "c_swapchain"
    /\ UNCHANGED <<ret, modeArg, ns, slot, onFrameResult, allocSeq, queue,
                   transformState, swapchain, pool_data, colorBuffer_mem,
                   depthBuffer_mem, render_cmdlist, discard_cmdlist>>
    /\ UNCHANGED <<bufferVars, sizeVars, logVars>>

\* create the swapchain over the framebuffers
CreateSwapchain ==
    /\ pc = "c_swapchain"
    /\ swapchain' = framebuffers_mem[0].gen
    /\ pc' = "c_record"
    /\ UNCHANGED <<ret, i, modeArg, ns, slot, onFrameResult, allocSeq, queue,
                   transformState>>
    /\ UNCHANGED <<poolVars, bufferVars, sizeVars, imageVars, listVars, logVars>>

\* variant: the discard list is recorded but its handle is not stored
recordStaticCommands_NoDiscard ==
    /\ pc = "c_record"
    /\ LET r == CmdList("render", colorBuffer_mem.gen, -1,
                        <<"Quads", Len(CubeVertexData)>>)
           d == CmdList("discard", colorBuffer_mem.gen, -1, <<>>)
       IN  /\ render_cmdlist' = r
           /\ discard_cmdlist' = discard_cmdlist
           /\ cmdbuf' = cmdbuf \cup {r, d}
    /\ pc' = "c_proj"
    /\ UNCHANGED <<ret, i, modeArg, ns, slot, onFrameResult, allocSeq, queue,
                   transformState, swapchain, framebuffer_cmdlists>>
    /\ UNCHANGED <<poolVars, bufferVars, sizeVars, imageVars, logVars>>

\* recordStaticCommands: the render list (clear, bind, draw) and the discard list
recordStaticCommands ==
    /\ pc = "c_record"
    /\ LET r == CmdList("render", colorBuffer_mem.gen, -1,
                        <<"Quads", Len(CubeVertexData)>>)
           d == CmdList("discard", colorBuffer_mem.gen, -1, <<>>)
       IN  /\ render_cmdlist' = r
           /\ discard_cmdlist' = d
           /\ cmdbuf' = cmdbuf \cup {r, d}
    /\ pc' = "c_proj"
    /\ UNCHANGED <<ret, i, modeArg, ns, slot, onFrameResult, allocSeq, queue,
                   transformState, swapchain, framebuffer_cmdlists>>
    /\ UNCHANGED <<poolVars, bufferVars, sizeVars, imageVars, logVars>>

\* initialise the projection matrix; onOperationMode returns to the loop
CreateProjection ==
    /\ pc = "c_proj"
    /\ transformState' =
           [transformState EXCEPT
               !.projMtx = perspectiveRH_ZO(40, framebufferWidth, framebufferHeight)]
    /\ pc' = "loop"
    /\ UNCHANGED <<ret, i, modeArg, ns, slot, onFrameResult, allocSeq, queue,
                   swapchain>>
    /\ UNCHANGED <<poolVars, bufferVars, sizeVars, imageVars, listVars, logVars>>

\* ------------------------------------------- destroyFramebufferResources
\* return early if there is nothing to destroy
DestroyCheck ==
    /\ pc = "d_check"
    /\ destroyOps' = << >>
    /\ pc' = IF swapchain = 0 THEN ret ELSE "d_wait"
    /\ UNCHANGED <<ret, i, modeArg, ns, slot, onFrameResult, allocSeq, queue,
                   transformState, swapchain, frameOps, refFrame>>
    /\ UNCHANGED <<poolVars, bufferVars, sizeVars, imageVars, listVars>>

\* variant: destruction starts without waiting for the queue
DestroyWaitIdle_NoWait ==
    /\ pc = "d_wait"
    /\ destroyOps' = Append(destroyOps, "waitIdle")
    /\ pc' = "d_clear"
    /\ UNCHANGED <<ret, i, modeArg, ns, slot, onFrameResult, allocSeq, queue,
                   transformState, swapchain, frameOps, refFrame>>
    /\ UNCHANGED <<poolVars, bufferVars, sizeVars, imageVars, listVars>>

\* queue.waitIdle(): blocks until the GPU has executed everything submitted
DestroyWaitIdle ==
    /\ pc = "d_wait"
    /\ queue = << >>
    /\ destroyOps' = Append(destroyOps, "waitIdle")
    /\ pc' = "d_clear"
    /\ UNCHANGED <<ret, i, modeArg, ns, slot, onFrameResult, allocSeq, queue,
                   transformState, swapchain, frameOps, refFrame>>
    /\ UNCHANGED <<poolVars, bufferVars, sizeVars, imageVars, listVars>>

\* variant: the static cmdbuf is not cleared
DestroyClearCmdbuf_Skip ==
    /\ pc = "d_clear"
    /\ cmdbuf' = cmdbuf
    /\ destroyOps' = destroyOps
    /\ pc' = "d_swap"
    /\ UNCHANGED <<ret, i, modeArg, ns, slot, onFrameResult, allocSeq, queue,
                   transformState, swapchain, frameOps, refFrame,
                   framebuffer_cmdlists, render_cmdlist, discard_cmdlist>>
    /\ UNCHANGED <<poolVars, bufferVars, sizeVars, imageVars>>

\* cmdbuf.clear(): every static list is destroyed; the handles dangle
DestroyClearCmdbuf ==
    /\ pc = "d_clear"
    /\ cmdbuf' = {}
    /\ destroyOps' = Append(destroyOps, "clear")
    /\ pc' = "d_swap"
    /\ UNCHANGED <<ret, i, modeArg, ns, slot, onFrameResult, allocSeq, queue,
                   transformState, swapchain, frameOps, refFrame,
                   framebuffer_cmdlists, render_cmdlist, discard_cmdlist>>
    /\ UNCHANGED <<poolVars, bufferVars, sizeVars, imageVars>>

DestroySwapchain ==
    /\ pc = "d_swap"
    /\ swapchain' = 0
    /\ destroyOps' = Append(destroyOps, "swapchain")
    /\ pc' = "d_fb"
    /\ i' = 0
    /\ UNCHANGED <<ret, modeArg, ns, slot, onFrameResult, allocSeq, queue,
                   transformState, frameOps, refFrame>>
    /\ UNCHANGED <<poolVars, bufferVars, sizeVars, imageVars, listVars>>

\* variant: the loop frees framebuffer 0 on every iteration
DestroyFramebuffer_Index0 ==
    /\ pc = "d_fb"
    /\ i < NumFramebuffers
    /\ pool_images' = pool_images \ { framebuffers_mem[0] }
    /\ framebuffers_mem' = [framebuffers_mem EXCEPT ![0] = NullHandle]
    /\ destroyOps' = Append(destroyOps, "framebuffer")
    /\ i' = i + 1
    /\ pc' = IF i + 1 < NumFramebuffers THEN "d_fb" ELSE "d_depth"
    /\ UNCHANGED <<ret, modeArg, ns, slot, onFrameResult, allocSeq, queue,
                   transformState, swapchain, frameOps, refFrame, pool_data,
                   colorBuffer_mem, depthBuffer_mem>>
    /\ UNCHANGED <<bufferVars, sizeVars, listVars>>

\* one iteration of the loop freeing the framebuffers
DestroyFramebuffer ==
    /\ pc = "d_fb"
    /\ i < NumFramebuffers
    /\ pool_images' = pool_images \ { framebuffers_mem[i] }
    /\ framebuffers_mem' = [framebuffers_mem EXCEPT ![i] = NullHandle]
    /\ destroyOps' = Append(destroyOps, "framebuffer")
    /\ i' = i + 1
    /\ pc' = IF i + 1 < NumFramebuffers THEN "d_fb" ELSE "d_depth"
    /\ UNCHANGED <<ret, modeArg, ns, slot, onFrameResult, allocSeq, queue,
                   transformState, swapchain, frameOps, refFrame, pool_data,
                   colorBuffer_mem, depthBuffer_mem>>
    /\ UNCHANGED <<bufferVars, sizeVars, listVars>>

DestroyDepthBuffer ==
    /\ pc = "d_depth"
    /\ pool_images' = pool_images \ { depthBuffer_mem }
    /\ depthBuffer_mem' = NullHandle
    /\ destroyOps' = Append(destroyOps, "depthBuffer")
    /\ pc' = "d_color"
    /\ UNCHANGED <<ret, i, modeArg, ns, slot, onFrameResult, allocSeq, queue,
                   transformState, swapchain, frameOps, refFrame, pool_data,
                   colorBuffer_mem, framebuffers_mem>>
    /\ UNCHANGED <<bufferVars, sizeVars, listVars>>

DestroyColorBuffer ==
    /\ pc = "d_color"
    /\ pool_images' = pool_images \ { colorBuffer_mem }
    /\ colorBuffer_mem' = NullHandle
    /\ destroyOps' = Append(destroyOps, "colorBuffer")
    /\ pc' = ret
    /\ UNCHANGED <<ret, i, modeArg, ns, slot, onFrameResult, allocSeq, queue,
                   transformState, swapchain, frameOps, refFrame, pool_data,
                   depthBuffer_mem, framebuffers_mem>>
    /\ UNCHANGED <<bufferVars, sizeVars, listVars>>

\* variant: the matrix is rebuilt before the exit key is looked at
OnFrameKeyCheck_Late ==
    /\ pc = "f_key"
    /\ \E kDownPlus \in BOOLEAN :
          IF kDownPlus
          THEN /\ onFrameResult' = FALSE
               /\ pc' = "onframe_ret"
               /\ transformState' =
                      [transformState EXCEPT !.mdlvMtx = Mat4Identity]
          ELSE /\ onFrameResult' = onFrameResult
               /\ pc' = "f_mtx"
               /\ transformState' = transformState
    /\ UNCHANGED <<ret, i, modeArg, ns, slot, allocSeq, queue, swapchain>>
    /\ UNCHANGED <<poolVars, bufferVars, sizeVars, imageVars, listVars, logVars>>

\* ---------------------------------------------------------------- onFrame
\* hidScanInput / hidKeysDown: return false when PLUS is down
OnFrameKeyCheck ==
    /\ pc = "f_key"
    /\ \E kDownPlus \in BOOLEAN :
          IF kDownPlus
          THEN /\ onFrameResult' = FALSE
               /\ pc' = "onframe_ret"
          ELSE /\ onFrameResult' = onFrameResult
               /\ pc' = "f_mtx"
    /\ UNCHANGED <<ret, i, modeArg, ns, slot, allocSeq, queue,
                   transformState, swapchain>>
    /\ UNCHANGED <<poolVars, bufferVars, sizeVars, imageVars, listVars, logVars>>

\* the model-view matrix of a frame at time t (seconds):
\*   identity, translate, rotate about X, rotate about Y, scale
ModelViewMatrix(t) ==
    LET time    == 8 * t                  \* seconds in fixed point
        period1 == fractf(time \div 8)    \* fractf(time/8.0f)
        period2 == fractf(time \div 4)    \* fractf(time/4.0f)
        m0 == Mat4Identity
        m1 == translate(m0, <<0, 0, -3>>)
        m2 == rotate(m1, sinfTurn(period2), <<1, 0, 0>>)
        m3 == rotate(m2, -period1, <<0, 1, 0>>)
    IN  scale(m3, <<1, 1, 1>>)

\* variant: the matrix is not reset to the identity first (the product is
\* cut off at 8 factors to keep the state space finite)
OnFrameUpdateMatrix_Accumulate ==
    /\ pc = "f_mtx"
    /\ LET time    == 8 * ns
           period1 == fractf(time \div 8)
           period2 == fractf(time \div 4)
           m1 == translate(IF Len(transformState.mdlvMtx) < 8
                           THEN transformState.mdlvMtx ELSE Mat4Identity,
                           <<0, 0, -3>>)
           m2 == rotate(m1, sinfTurn(period2), <<1, 0, 0>>)
           m3 == rotate(m2, -period1, <<0, 1, 0>>)
       IN  transformState' =
               [transformState EXCEPT !.mdlvMtx = scale(m3, <<1, 1, 1>>)]
    /\ refFrame' = IF refFrame = NoFrame
                   THEN [ns |-> ns, gen |-> allocSeq,
                         mdlvMtx |-> transformState'.mdlvMtx]
                   ELSE refFrame
    /\ frameOps' = << >>
    /\ pc' = "r_dyn"
    /\ UNCHANGED <<ret, i, modeArg, ns, slot, onFrameResult, allocSeq, queue,
                   swapchain, destroyOps>>
    /\ UNCHANGED <<poolVars, bufferVars, sizeVars, imageVars, listVars>>

\* rebuild the model-view matrix, then call render()
OnFrameUpdateMatrix ==
    /\ pc = "f_mtx"
    /\ transformState' = [transformState EXCEPT !.mdlvMtx = ModelViewMatrix(ns)]
    /\ refFrame' = IF refFrame = NoFrame
                   THEN [ns |-> ns, gen |-> allocSeq,
                         mdlvMtx |-> transformState'.mdlvMtx]
                   ELSE refFrame
    /\ frameOps' = << >>
    /\ pc' = "r_dyn"
    /\ UNCHANGED <<ret, i, modeArg, ns, slot, onFrameResult, allocSeq, queue,
                   swapchain, destroyOps>>
    /\ UNCHANGED <<poolVars, bufferVars, sizeVars, imageVars, listVars>>

OnFrameReturnTrue ==
    /\ pc = "f_ret"
    /\ onFrameResult' = TRUE
    /\ pc' = "onframe_ret"
    /\ UNCHANGED <<ret, i, modeArg, ns, slot, allocSeq, queue,
                   transformState, swapchain>>
    /\ UNCHANGED <<poolVars, bufferVars, sizeVars, imageVars, listVars, logVars>>

\* ----------------------------------------------------------------- render
\* record the dynamic list (pushConstants inlines transformState), submit it
RenderSubmitDynamic ==
    /\ pc = "r_dyn"
    /\ queue' = Append(queue, QueueOp("submit", "dynamic", 0, -1, <<>>))
    /\ frameOps' = Append(frameOps,
                     QueueOp("submit", "dynamic", 0, -1,
                             <<transformState.mdlvMtx, transformState.projMtx>>))
    /\ pc' = "r_render"
    /\ UNCHANGED <<ret, i, modeArg, ns, slot, onFrameResult, allocSeq,
                   transformState, swapchain, destroyOps, refFrame>>
    /\ UNCHANGED <<poolVars, bufferVars, sizeVars, imageVars, listVars>>

\* variant: the discard list is submitted where the render list should be
RenderSubmitRender_Discard ==
    /\ pc = "r_render"
    /\ queue' = Append(queue, Submit(discard_cmdlist))
    /\ frameOps' = Append(frameOps, Submit(discard_cmdlist))
    /\ pc' = "r_acquire"
    /\ UNCHANGED <<ret, i, modeArg, ns, slot, onFrameResult, allocSeq,
                   transformState, swapchain, destroyOps, refFrame>>
    /\ UNCHANGED <<poolVars, bufferVars, sizeVars, imageVars, listVars>>

RenderSubmitRender ==
    /\ pc = "r_render"
    /\ queue' = Append(queue, Submit(render_cmdlist))
    /\ frameOps' = Append(frameOps, Submit(render_cmdlist))
    /\ pc' = "r_acquire"
    /\ UNCHANGED <<ret, i, modeArg, ns, slot, onFrameResult, allocSeq,
                   transformState, swapchain, destroyOps, refFrame>>
    /\ UNCHANGED <<poolVars, bufferVars, sizeVars, imageVars, listVars>>

\* framebuffers whose present is still waiting in the queue
PresentPending == { q.slot : q \in { queue[k] : k \in 1 .. Len(queue) } \cap
                                   { QueueOp("present", "swapchain", swapchain, s, <<>>) :
                                       s \in Slots } }

\* queue.acquireImage(swapchain): blocks until a framebuffer is available
RenderAcquire ==
    /\ pc = "r_acquire"
    /\ \E s \in Slots \ PresentPending : slot' = s
    /\ frameOps' = Append(frameOps,
                     QueueOp("acquire", "swapchain", swapchain, slot', <<>>))
    /\ pc' = "r_resolve"
    /\ UNCHANGED <<ret, i, modeArg, ns, onFrameResult, allocSeq, queue,
                   transformState, swapchain, destroyOps, refFrame>>
    /\ UNCHANGED <<poolVars, bufferVars, sizeVars, imageVars, listVars>>

\* variant: the resolve list of framebuffer 0 is submitted whatever the slot
RenderSubmitResolve_Slot0 ==
    /\ pc = "r_resolve"
    /\ queue' = Append(queue, Submit(framebuffer_cmdlists[0]))
    /\ frameOps' = Append(frameOps, Submit(framebuffer_cmdlists[0]))
    /\ pc' = "r_discard"
    /\ UNCHANGED <<ret, i, modeArg, ns, slot, onFrameResult, allocSeq,
                   transformState, swapchain, destroyOps, refFrame>>
    /\ UNCHANGED <<poolVars, bufferVars, sizeVars, imageVars, listVars>>

RenderSubmitResolve ==
    /\ pc = "r_resolve"
    /\ queue' = Append(queue, Submit(framebuffer_cmdlists[slot]))
    /\ frameOps' = Append(frameOps, Submit(framebuffer_cmdlists[slot]))
    /\ pc' = "r_discard"
    /\ UNCHANGED <<ret, i, modeArg, ns, slot, onFrameResult, allocSeq,
                   transformState, swapchain, destroyOps, refFrame>>
    /\ UNCHANGED <<poolVars, bufferVars, sizeVars, imageVars, listVars>>

RenderSubmitDiscard ==
    /\ pc = "r_discard"
    /\ queue' = Append(queue, Submit(discard_cmdlist))
    /\ frameOps' = Append(frameOps, Submit(discard_cmdlist))
    /\ pc' = "r_present"
    /\ UNCHANGED <<ret, i, modeArg, ns, slot, onFrameResult, allocSeq,
                   transformState, swapchain, destroyOps, refFrame>>
    /\ UNCHANGED <<poolVars, bufferVars, sizeVars, imageVars, listVars>>

RenderPresent ==
    /\ pc = "r_present"
    /\ queue' = Append(queue, QueueOp("present", "swapchain", swapchain, slot, <<>>))
    /\ frameOps' = Append(frameOps,
                     QueueOp("present", "swapchain", swapchain, slot, <<>>))
    /\ pc' = "f_ret"
    /\ UNCHANGED <<ret, i, modeArg, ns, slot, onFrameResult, allocSeq,
                   transformState, swapchain, destroyOps, refFrame>>
    /\ UNCHANGED <<poolVars, bufferVars, sizeVars, imageVars, listVars>>

\* variant: the destructor frees the buffers without destroying the
\* framebuffer resources first
DtorDestroyFramebufferResources_Skip ==
    /\ pc = "dt_destroy"
    /\ pc' = "dt_vb"
    /\ ret' = ret
    /\ UNCHANGED <<i, modeArg, ns, slot, onFrameResult, allocSeq, queue,
                   transformState, swapchain>>
    /\ UNCHANGED <<poolVars, bufferVars, sizeVars, imageVars, listVars, logVars>>

\* ------------------------------------------------------------- destructor
DtorDestroyFramebufferResources ==
    /\ pc = "dt_destroy"
    /\ pc' = "d_check"
    /\ ret' = "dt_vb"
    /\ UNCHANGED <<i, modeArg, ns, slot, onFrameResult, allocSeq, queue,
                   transformState, swapchain>>
    /\ UNCHANGED <<poolVars, bufferVars, sizeVars, imageVars, listVars, logVars>>

DtorVertexBuffer ==
    /\ pc = "dt_vb"
    /\ pool_data' = pool_data \ { vertexBuffer }
    /\ vertexBuffer' = NullHandle
    /\ pc' = "dt_ub"
    /\ UNCHANGED <<ret, i, modeArg, ns, slot, onFrameResult, allocSeq, queue,
                   transformState, swapchain, pool_images,
                   transformUniformBuffer>>
    /\ UNCHANGED <<sizeVars, imageVars, listVars, logVars>>

DtorUniformBuffer ==
    /\ pc = "dt_ub"
    /\ pool_data' = pool_data \ { transformUniformBuffer }
    /\ transformUniformBuffer' = NullHandle
    /\ pc' = "done"
    /\ UNCHANGED <<ret, i, modeArg, ns, slot, onFrameResult, allocSeq, queue,
                   transformState, swapchain, pool_images, vertexBuffer>>
    /\ UNCHANGED <<sizeVars, imageVars, listVars, logVars>>

\* ---------------------------------------------------------- specification
Next ==
    \/ RunStart
    \/ MsgOperationMode
    \/ MsgClose
    \/ CallOnFrame
    \/ RunContinue
    \/ RunBreak
    \/ GpuExecute
    \/ OnOperationModeDestroy
    \/ OnOperationModeChooseSize
    \/ CreateColorBuffer
    \/ CreateDepthBuffer
    \/ CreateFramebuffer
    \/ CreateSwapchain
    \/ recordStaticCommands
    \/ CreateProjection
    \/ DestroyCheck
    \/ DestroyWaitIdle
    \/ DestroyClearCmdbuf
    \/ DestroySwapchain
    \/ DestroyFramebuffer
    \/ DestroyDepthBuffer
    \/ DestroyColorBuffer
    \/ OnFrameKeyCheck
    \/ OnFrameUpdateMatrix
    \/ OnFrameReturnTrue
    \/ RenderSubmitDynamic
    \/ RenderSubmitRender
    \/ RenderAcquire
    \/ RenderSubmitResolve
    \/ RenderSubmitDiscard
    \/ RenderPresent
    \/ DtorDestroyFramebufferResources
    \/ DtorVertexBuffer
    \/ DtorUniformBuffer

Spec == Init /\ [][Next]_vars

\* ------------------------------------------------------------- properties
RenderPcs == {"r_dyn", "r_render", "r_acquire", "r_resolve", "r_discard", "r_present"}
OnFramePcs == {"f_key", "f_mtx", "f_ret"} \cup RenderPcs
DestroyPcs == {"d_clear", "d_swap", "d_fb", "d_depth", "d_color"}
BetweenCalls == {"run", "loop", "onframe_ret", "dt_destroy", "om_destroy"}

FrameKinds == [k \in 1 .. Len(frameOps) |-> <<frameOps[k].op, frameOps[k].kind>>]
FullFrame == << <<"submit", "dynamic">>, <<"submit", "render">>,
                <<"acquire", "swapchain">>, <<"submit", "resolve">>,
                <<"submit", "discard">>, <<"present", "swapchain">> >>
IsPrefix(a, b) == Len(a) <= Len(b) /\ a = SubSeq(b, 1, Len(a))
Positions(o, kind) ==
    { k \in 1 .. Len(frameOps) : frameOps[k].op = o /\ frameOps[k].kind = kind }

FullDestroy == <<"waitIdle", "clear", "swapchain", "framebuffer", "framebuffer",
                 "depthBuffer", "colorBuffer">>

ImageHandles == {colorBuffer_mem, depthBuffer_mem} \cup
                { framebuffers_mem[s] : s \in Slots }
Absent == swapchain = 0 /\ pool_images = {} /\ ImageHandles = {NullHandle}
Present == /\ swapchain # 0
           /\ NullHandle \notin ImageHandles
           /\ pool_images = ImageHandles
           /\ Cardinality(pool_images) = 2 + NumFramebuffers
           /\ \A h \in ImageHandles : h.gen = swapchain

\* the list is held by the static cmdbuf, was recorded by the latest
\* createFramebufferResources, and the images it references are allocated
LiveList(kind, g, s) ==
    /\ \E l \in cmdbuf : l.kind = kind /\ l.gen = g /\ l.slot = s
    /\ g = allocSeq
    /\ colorBuffer_mem \in pool_images /\ colorBuffer_mem.gen = g
    /\ depthBuffer_mem \in pool_images /\ depthBuffer_mem.gen = g
    /\ kind = "resolve" =>
          /\ s \in Slots
          /\ framebuffers_mem[s] \in pool_images
          /\ framebuffers_mem[s].gen = g
LiveOp(q) ==
    CASE q.kind = "dynamic" -> TRUE
      [] q.kind = "swapchain" -> swapchain # 0 /\ q.gen = swapchain /\ q.slot \in Slots
      [] OTHER -> LiveList(q.kind, q.gen, q.slot)

\* C1: in every frame the resolve list is submitted after the render list and
\* before the discard list and the present, also after mode changes.
C1_ResolveOrdering ==
    /\ \A r \in Positions("submit", "resolve") :
          \E m \in Positions("submit", "render") : m < r
    /\ \A d \in Positions("submit", "discard") \cup Positions("present", "swapchain") :
          \E r \in Positions("submit", "resolve") : r < d
    /\ pc = "f_ret" =>
          /\ Positions("submit", "render") # {}
          /\ Positions("submit", "resolve") # {}
          /\ Positions("submit", "discard") # {}
          /\ Positions("present", "swapchain") # {}
          /\ \A r \in Positions("submit", "resolve") :
                /\ \A m \in Positions("submit", "render") : m < r
                /\ \A d \in Positions("submit", "discard") : r < d
                /\ \A q \in Positions("present", "swapchain") : r < q
C1_Witness == pc = "f_ret" /\ allocSeq >= 2 /\ Len(frameOps) = 6

\* C2: createFramebufferResources is entered only in the absent state; between
\* calls the image pool holds 0 or exactly 4 allocations, never more.
C2_NoLeak ==
    /\ pc = "c_color" => Absent
    /\ pc = "om_choose" => Absent
    /\ pc \in BetweenCalls => Cardinality(pool_images) \in {0, 2 + NumFramebuffers}
    /\ pc \in BetweenCalls => (Absent \/ Present)
    /\ Cardinality(pool_images) <= 2 + NumFramebuffers
C2_Witness == pc = "c_color" /\ allocSeq >= 2 /\ frameOps # << >>

\* C3: image memory, swapchain and static lists are destroyed and created
\* together, only while the queue is idle: nothing in the queue ever
\* references a destroyed list, image or swapchain.
C3_DestroyedWhenIdle ==
    /\ pc \in DestroyPcs => queue = << >>
    /\ \A k \in 1 .. Len(queue) : LiveOp(queue[k])
    /\ queue # << >> => Present
    /\ pc \in BetweenCalls \cup OnFramePcs => (Absent \/ Present)
C3_Witness == pc = "d_clear" /\ ret = "dt_vb" /\ Len(frameOps) = 6

\* C5: 24 vertices in 6 faces of 4; every coordinate is -1 or +1; a face holds
\* 4 distinct corners sharing the face's fixed coordinate (+X -X +Y -Y +Z -Z);
\* the recorded draw call draws these 24 vertices as quads.
C5_CubeGeometry ==
    /\ Len(CubeVertexData) = 24
    /\ \A k \in 1 .. Len(CubeVertexData) : \A a \in 1 .. 3 :
          CubeVertexData[k].position[a] \in {-1, 1}
    /\ \A f \in 0 .. 5 :
          LET face == { CubeVertexData[4 * f + n].position : n \in 1 .. 4 }
              axis == (f \div 2) + 1
              sign == IF f % 2 = 0 THEN 1 ELSE -1
          IN  /\ Cardinality(face) = 4
              /\ \A v \in face : v[axis] = sign
    /\ render_cmdlist # UninitList => render_cmdlist.draw = <<"Quads", 24>>
    /\ \A l \in cmdbuf : l.kind = "render" => l.draw = <<"Quads", 24>>
C5_Witness == pc = "f_ret" /\ render_cmdlist \in cmdbuf
              /\ Positions("submit", "render") # {}

\* C7: render() performs dynamic submit, render submit, acquire, resolve
\* submit, discard submit, present, once each in this order; the resolve list
\* and the presented image are those of the acquired slot, which is 0 or 1.
C7_SixOperations ==
    /\ IsPrefix(FrameKinds, FullFrame)
    /\ pc = "f_ret" =>
          /\ FrameKinds = FullFrame
          /\ slot \in Slots
          /\ frameOps[3].slot = slot
          /\ frameOps[4] = Submit(framebuffer_cmdlists[slot])
          /\ frameOps[4].slot = slot
          /\ frameOps[6].slot = slot
          /\ frameOps[1].data = <<transformState.mdlvMtx, transformState.projMtx>>
    /\ pc \in {"r_resolve", "r_discard", "r_present"} => slot \in Slots
C7_Witness == pc = "f_ret" /\ slot = 1 /\ Len(queue) > 6

\* C8: destroy in the present state runs waitIdle, clear, swapchain destroy,
\* framebuffer frees, depth free, color free in this order; lists and
\* swapchain are gone before any image memory is freed; it ends absent.
C8_DestroyOrder ==
    /\ IsPrefix(destroyOps, FullDestroy)
    /\ (pc \in DestroyPcs \cup {"d_wait"} /\
        Cardinality(pool_images) < 2 + NumFramebuffers)
          => (cmdbuf = {} /\ swapchain = 0)
    /\ pc = "d_wait" => (destroyOps = << >> /\ Present)
    /\ pc = "d_clear" => destroyOps = SubSeq(FullDestroy, 1, 1)
    /\ pc = "d_swap" => destroyOps = SubSeq(FullDestroy, 1, 2)
    /\ pc = "d_fb" => destroyOps = SubSeq(FullDestroy, 1, 3 + i)
    /\ pc = "d_depth" => destroyOps = SubSeq(FullDestroy, 1, 5)
    /\ pc = "d_color" => destroyOps = SubSeq(FullDestroy, 1, 6)
    /\ (pc \in {"om_choose", "dt_vb"} /\ destroyOps # << >>)
          => (destroyOps = FullDestroy /\ Absent /\ cmdbuf = {})
C8_Witness == pc = "om_choose" /\ destroyOps = FullDestroy /\ Len(frameOps) = 6

\* C4: onFrame branches only on the exit key: with PLUS down it returns false
\* and changes nothing (no matrix update, no submit, acquire or present);
\* otherwise it runs one full render sequence and returns true; false is
\* returned by the key check only.
C4_ExitKeyOnly ==
    /\ [][ (pc = "f_key" /\ pc' = "onframe_ret")
              => /\ onFrameResult' = FALSE
                 /\ UNCHANGED <<transformState, queue, frameOps, slot, swapchain>>
                 /\ UNCHANGED <<poolVars, bufferVars, imageVars, listVars>> ]_vars
    /\ [][ (pc = "f_key" /\ pc' # "f_key" /\ pc' # "onframe_ret")
              => (pc' = "f_mtx" /\ UNCHANGED <<transformState, queue>>) ]_vars
    /\ [][ (pc' = "onframe_ret" /\ pc # "onframe_ret" /\ pc # "f_key")
              => /\ pc = "f_ret"
                 /\ onFrameResult' = TRUE
                 /\ FrameKinds = FullFrame
                 /\ frameOps[1].data[1] = ModelViewMatrix(ns) ]_vars
    /\ [][ (onFrameResult' = FALSE /\ onFrameResult = TRUE) => pc = "f_key" ]_vars
    /\ [][ (pc = "onframe_ret" /\ pc' = "dt_destroy") => onFrameResult = FALSE ]_vars
C4_Witness == pc = "onframe_ret" /\ onFrameResult = FALSE /\ Len(frameOps) = 6
              /\ queue # << >>

\* C6: the model-view matrix of a frame depends on the time input only: it is
\* translate, rotate X, rotate Y, scale applied to the identity, and a frame
\* with the time input of the first frame gets the first frame's matrix,
\* whatever happened in between; onFrame never changes the projection matrix.
C6_MatrixFromTimeOnly ==
    /\ [] ( (pc \in RenderPcs \cup {"f_ret"} /\ ns = refFrame.ns)
               => transformState.mdlvMtx = refFrame.mdlvMtx )
    /\ [] ( pc \in RenderPcs \cup {"f_ret"}
               => /\ Len(transformState.mdlvMtx) = 4
                  /\ [k \in 1 .. 4 |-> transformState.mdlvMtx[k].op]
                        = <<"translate", "rotate", "rotate", "scale">>
                  /\ SubSeq(transformState.mdlvMtx[2].arg, 2, 4) = <<1, 0, 0>>
                  /\ SubSeq(transformState.mdlvMtx[3].arg, 2, 4) = <<0, 1, 0>> )
    /\ [][ (pc \in OnFramePcs) => (transformState'.projMtx = transformState.projMtx) ]_vars
C6_Witness == /\ pc = "f_ret"
              /\ ns = refFrame.ns
              /\ refFrame.gen < allocSeq
              /\ transformState.mdlvMtx = refFrame.mdlvMtx

\* C9: vertex buffer and uniform buffer are allocated by the constructor and
\* stay as they are through every onOperationMode and onFrame; only the
\* destructor frees them, after the framebuffer resources are destroyed.
C9_BuffersOutliveFrames ==
    /\ [] ( pc \notin {"dt_ub", "done"}
               => /\ vertexBuffer = Handle("vertexBuffer", 0)
                  /\ vertexBuffer \in pool_data )
    /\ [] ( pc # "done"
               => /\ transformUniformBuffer = Handle("transformUniformBuffer", 0)
                  /\ transformUniformBuffer \in pool_data )
    /\ [][ (vertexBuffer' # vertexBuffer \/ transformUniformBuffer' # transformUniformBuffer
            \/ pool_data' # pool_data)
              => (pc \in {"dt_vb", "dt_ub"} /\ Absent /\ cmdbuf = {}) ]_vars
C9_Witness == pc = "dt_ub" /\ allocSeq >= 2 /\ Len(frameOps) = 6
              /\ destroyOps = FullDestroy

\* C10: with the operation mode delivered before the first frame, render()
\* runs in the present state only and every list it submits was recorded by
\* the latest createFramebufferResources and is still held by the cmdbuf, the
\* swapchain is the live one; destroy in the absent state does nothing.
C10_RenderUsesLiveLists ==
    /\ [] ( pc \in RenderPcs =>
               /\ Present
               /\ swapchain = allocSeq
               /\ render_cmdlist \in cmdbuf
               /\ discard_cmdlist \in cmdbuf
               /\ \A s \in Slots : framebuffer_cmdlists[s] \in cmdbuf
               /\ LiveList("render", render_cmdlist.gen, render_cmdlist.slot)
               /\ render_cmdlist.kind = "render"
               /\ LiveList("discard", discard_cmdlist.gen, discard_cmdlist.slot)
               /\ discard_cmdlist.kind = "discard"
               /\ \A s \in Slots :
                     /\ framebuffer_cmdlists[s].kind = "resolve"
                     /\ framebuffer_cmdlists[s].slot = s
                     /\ LiveList("resolve", framebuffer_cmdlists[s].gen, s)
               /\ \A k \in 1 .. Len(frameOps) : LiveOp(frameOps[k]) )
    /\ [][ (pc = "d_check" /\ swapchain = 0 /\ pc' # pc)
              => /\ pc' = ret
                 /\ UNCHANGED <<queue, swapchain>>
                 /\ UNCHANGED <<poolVars, bufferVars, imageVars, listVars>> ]_vars
    /\ [] ( pc \in DestroyPcs \cup {"d_wait"} => destroyOps # << >> \/ Present )
    /\ [] ( (pc \in {"om_choose", "dt_vb"} /\ destroyOps = << >>) => Absent )
C10_Witness == pc = "r_discard" /\ allocSeq >= 2 /\ slot = 1

====
